---- MODULE Spec2Model ----
(***************************************************************************)
(* Model of src/server.js: the realtime rating server.  One Node.js event  *)
(* loop runs every socket.io handler to completion, so each handler is one *)
(* atomic action.                                                          *)
(*                                                                         *)
(* Representation                                                          *)
(*   - a JavaScript string is a sequence of one-character strings;         *)
(*   - a JavaScript number is [nan |-> BOOLEAN, twice |-> Int], the number *)
(*     being twice/2 (so 2.5 is twice = 5); NaN has nan = TRUE;            *)
(*   - a Map / a null-prototype object is a function whose DOMAIN is its   *)
(*     key set;                                                            *)
(*   - avg, a number with two decimals, is kept as an integer number of    *)
(*     hundredths.                                                         *)
(***************************************************************************)
EXTENDS Integers, Sequences, FiniteSets, TLC

(* ------------------------------ bounds -------------------------------- *)

\* number of sockets that ever connect (socket ids 1..NumConns)
NumConns == 2
\* number of rooms created in one behaviour
MaxCreates == 2
\* number of distinct values Math.random() yields for the last character
NumDraws == 2
\* number of events the server handles in one behaviour
MaxEvents == 6

(* ------------------------- program constants -------------------------- *)

\* server.js:22  the alphabet of room codes
chars ==
  << "A","B","C","D","E","F","G","H","J","K","L","M","N","P","Q","R",
     "S","T","U","V","W","X","Y","Z","2","3","4","5","6","7","8","9" >>
\* server.js:24  for (let i = 0; i < 6; i++)
CodeLen == 6
\* server.js:45  .slice(0, 32)
SliceLen == 32
\* server.js:35,69  the rating range
MinRating == 1
MaxRating == 5

(* --------------------------- JavaScript values ------------------------ *)

Num(t) == [nan |-> FALSE, twice |-> t]
NaN == [nan |-> TRUE, twice |-> 0]

JsNumber(n) == [t |-> "number", num |-> n, str |-> << >>]
JsString(s) == [t |-> "string", num |-> NaN, str |-> s]
JsUndefined == [t |-> "undefined", num |-> NaN, str |-> << >>]

Digits == << "0","1","2","3","4","5","6","7","8","9" >>

\* Number(x) for the values above: a number is itself, undefined is NaN, the
\* empty string is 0, a one-digit numeral is its digit, any other string of
\* the model is NaN.
ToNumber(x) ==
  IF x.t = "number" THEN x.num
  ELSE IF x.t = "undefined" THEN NaN
  ELSE IF x.str = << >> THEN Num(0)
  ELSE IF Len(x.str) = 1 /\ \E d \in 1..10 : Digits[d] = x.str[1]
       THEN Num(2 * ((CHOOSE d \in 1..10 : Digits[d] = x.str[1]) - 1))
  ELSE NaN

\* JavaScript's v >= n and v <= n for an integer n: false when v is NaN
Geq(v, n) == ~v.nan /\ v.twice >= 2 * n
Leq(v, n) == ~v.nan /\ v.twice <= 2 * n

LowerLetters ==
  << "a","b","c","d","e","f","g","h","i","j","k","l","m",
     "n","o","p","q","r","s","t","u","v","w","x","y","z" >>
UpperLetters ==
  << "A","B","C","D","E","F","G","H","I","J","K","L","M",
     "N","O","P","Q","R","S","T","U","V","W","X","Y","Z" >>

\* the characters of the model's strings
Alphabet ==
  {LowerLetters[i] : i \in 1..Len(LowerLetters)}
    \cup {UpperLetters[i] : i \in 1..Len(UpperLetters)}
    \cup {Digits[i] : i \in 1..Len(Digits)}

\* String.prototype.toUpperCase, character by character
toUpperCase ==
  [c \in Alphabet |->
     IF \E i \in 1..Len(LowerLetters) : LowerLetters[i] = c
     THEN UpperLetters[CHOOSE i \in 1..Len(LowerLetters) : LowerLetters[i] = c]
     ELSE c]

\* String(str || ''): undefined and the empty string give ''
ToStr(x) == IF x.t = "string" THEN x.str ELSE << >>

Min(a, b) == IF a < b THEN a ELSE b

\* server.js:44-46
sanitize(str) ==
  LET s == ToStr(str)
  IN  [i \in 1..Min(Len(s), SliceLen) |-> toUpperCase[s[i]]]

(* ------------------------------ Maps ---------------------------------- *)

EmptyMap == [x \in {} |-> x]
\* Map.prototype.set / obj[key] = value
Put(m, key, v) == [x \in DOMAIN m \cup {key} |-> IF x = key THEN v ELSE m[x]]
\* Map.prototype.delete / delete obj[key]
Remove(m, keys) == [x \in DOMAIN m \ keys |-> m[x]]

(* --------------------------- getStats --------------------------------- *)

RECURSIVE SumTwice(_, _)
\* sum of the in-range values of the entries whose keys are in S, doubled
SumTwice(ratings, S) ==
  IF S = {} THEN 0
  ELSE LET x == CHOOSE y \in S : TRUE
           v == ratings[x]
       IN  (IF Geq(v, MinRating) /\ Leq(v, MaxRating) THEN v.twice ELSE 0)
             + SumTwice(ratings, S \ {x})

\* +(num/den).toFixed(2), in hundredths: the integer n for which n/100 is
\* closest to num/den, the larger one of two equally close (num, den >= 0)
ToFixed2(num, den) == (200 * num + den) \div (2 * den)

\* getStats with distribution[v]++ for distribution[v - 1]++
getStatsBucketOff(room) ==
  LET values == room.ratings
      count == Cardinality(DOMAIN values)
      distribution ==
        [i \in 0..4 |->
           Cardinality({x \in DOMAIN values :
              /\ Geq(values[x], MinRating) /\ Leq(values[x], MaxRating)
              /\ values[x].twice = 2 * i})]
      sum == SumTwice(values, DOMAIN values)
      avg == IF count # 0 THEN ToFixed2(sum, 2 * count) ELSE 0
  IN  [count |-> count, avg |-> avg, distribution |-> distribution]

\* server.js:29-42
getStats(room) ==
  LET values == room.ratings
      count == Cardinality(DOMAIN values)
      distribution ==
        [i \in 0..4 |->
           Cardinality({x \in DOMAIN values :
              /\ Geq(values[x], MinRating) /\ Leq(values[x], MaxRating)
              /\ values[x].twice - 2 = 2 * i})]
      sum == SumTwice(values, DOMAIN values)
      avg == IF count # 0 THEN ToFixed2(sum, 2 * count) ELSE 0
  IN  [count |-> count, avg |-> avg, distribution |-> distribution]

(* ------------------------- generateRoomCode --------------------------- *)

\* one draw of six characters: draw[i] is Math.floor(Math.random() * 32)
CodeOf(draw) == [i \in 1..CodeLen |-> chars[draw[i] + 1]]

NoCode == << >>

\* generateRoomCode without the collision check of server.js:25
generateRoomCodeUnchecked(attempts, rms) ==
  IF attempts = << >> THEN NoCode ELSE CodeOf(Head(attempts))

RECURSIVE generateRoomCode(_, _)
\* server.js:21-27; attempts is the sequence of draws the recursion makes.
\* NoCode: every modelled draw collided, the recursion is still running.
generateRoomCode(attempts, rms) ==
  IF attempts = << >> THEN NoCode
  ELSE LET code == CodeOf(Head(attempts))
       IN  IF code \in DOMAIN rms
           THEN generateRoomCode(Tail(attempts), rms)
           ELSE code

\* the draws of the model: the first five characters are chars[0], the
\* last is one of the first NumDraws characters
Draws == {[i \in 1..CodeLen |-> IF i = CodeLen THEN k ELSE 0] : k \in 0..(NumDraws - 1)}
\* a create_room of the model makes one draw and, when that collides, a
\* second, different one
Attempts == {a \in [1..2 -> Draws] : a[1] # a[2]}
Codes == {CodeOf(d) : d \in Draws}

(* ------------------------------ state --------------------------------- *)

Conns == 1..NumConns

VARIABLES
  conns,    \* socket id -> "idle" (not yet connected), "open", "closed"
  rooms,    \* server.js:19  code -> [creatorId, ratings, id]
  members,  \* socket.io's room membership: code -> set of socket ids
  joined,   \* history: code -> the open sockets that created or joined the
            \* room now live under the code
  nextId,   \* number of rooms created so far + 1 (insertion order of rooms)
  ended,    \* history: the [code, id] of every room deleted so far
  out,      \* what the last handler did, in order: emits, deletes, acks
  steps,    \* number of events handled so far
  call      \* the create_room call that is being followed statement by statement

vars == << conns, rooms, members, joined, nextId, ended, out, steps, call >>

\* no create_room call is being followed
NoCall == [pc |-> "none", c |-> 0, code |-> << >>]

(* what a handler does, as entries of out *)
Emit(ev, code, to, stats, id) ==
  [k |-> "emit", ev |-> ev, code |-> code, to |-> to, stats |-> stats, room |-> id]
Ended(code, to, id) ==
  [k |-> "emit", ev |-> "room_ended", code |-> code, to |-> to, room |-> id]
Delete(code, id) == [k |-> "delete", code |-> code, room |-> id]
AckCode(code) == [k |-> "ack", ok |-> TRUE, code |-> code]
AckOk == [k |-> "ack", ok |-> TRUE]
AckError(e) == [k |-> "ack", ok |-> FALSE, error |-> e]


\* the payloads clients send
\* the codes in requests: every code of the model, and the first in lowercase
ReqCodes ==
  {JsString(code) : code \in Codes} \cup {JsString([i \in 1..CodeLen |-> "a"])}
\* the values in requests: 0, 1, 2.5, 6, "5" and "x"
ReqValues ==
  {JsNumber(Num(0)), JsNumber(Num(2)), JsNumber(Num(5)), JsNumber(Num(12)),
   JsString(<<"5">>), JsString(<<"x">>)}
\* the codes looked up: those above, every code of the model followed by one
\* more character, a code in mixed case, and no code at all
LookupCodes ==
  ReqCodes
    \cup {JsString(Append(code, "A")) : code \in Codes}
    \cup {JsString([i \in 1..CodeLen |-> IF i = 1 THEN "a" ELSE "A"]), JsUndefined}
\* sanitize(payload.code) and Number(payload.value) on the requests of the
\* model, evaluated once
Sanitized == [rc \in LookupCodes |-> sanitize(rc)]
Numbered == [rv \in ReqValues |-> ToNumber(rv)]

CodePayloads == {[code |-> rc, value |-> JsUndefined] : rc \in ReqCodes}
\* a rating is sent with every value for every code as the server issued it,
\* and with the value 1 for the first code in lowercase
RatingPayloads ==
  {[code |-> JsString(code), value |-> rv] : code \in Codes, rv \in ReqValues}
    \cup {[code |-> JsString([i \in 1..CodeLen |-> "a"]), value |-> JsNumber(Num(2))]}

Init ==
  /\ conns = [c \in Conns |-> "idle"]
  /\ rooms = EmptyMap
  /\ members = [code \in Codes |-> {}]
  /\ joined = [code \in Codes |-> {}]
  /\ nextId = 1
  /\ ended = {}
  /\ out = << >>
  /\ steps = 0
  /\ call = NoCall

(* ----------------------------- handlers ------------------------------- *)

\* one more event is taken from the event loop and its handler runs to
\* completion
Handled == steps < MaxEvents /\ steps' = steps + 1 /\ UNCHANGED call

\* server.js:48  a socket connects and its handlers are registered
Connect(c) ==
  /\ Handled
  /\ conns[c] = "idle"
  /\ conns' = [conns EXCEPT ![c] = "open"]
  /\ out' = << >>
  /\ UNCHANGED << rooms, members, joined, nextId, ended >>

\* server.js:49-54
CreateRoom(c, attempts) ==
  /\ Handled
  /\ conns[c] = "open"
  /\ nextId <= MaxCreates
  /\ nextId' = nextId + 1
  /\ UNCHANGED << conns, ended >>
  /\ LET code == generateRoomCode(attempts, rooms)
     IN  /\ code # NoCode
         /\ out' = << AckCode(code) >>
         /\ members' = [members EXCEPT ![code] = @ \cup {c}]
         /\ joined' = [joined EXCEPT ![code] = {c}]
         /\ rooms' = Put(rooms, code,
                         [creatorId |-> c, ratings |-> EmptyMap, id |-> nextId])

\* join_room with io.to(code) for the io.to(socket.id) of server.js:61
JoinRoomToRoom(c, p) ==
  /\ Handled
  /\ conns[c] = "open"
  /\ UNCHANGED << conns, rooms, nextId, ended >>
  /\ LET code == Sanitized[p.code]
     IN  IF code \notin DOMAIN rooms
         THEN /\ out' = << AckError("Room not found") >>
              /\ UNCHANGED << members, joined >>
         ELSE /\ members' = [members EXCEPT ![code] = @ \cup {c}]
              /\ joined' = [joined EXCEPT ![code] = @ \cup {c}]
              /\ out' = << AckCode(code),
                           Emit("room_update", code, members'[code],
                                getStats(rooms[code]), rooms[code].id) >>

\* server.js:56-62
JoinRoom(c, p) ==
  /\ Handled
  /\ conns[c] = "open"
  /\ UNCHANGED << conns, rooms, nextId, ended >>
  /\ LET code == Sanitized[p.code]
     IN  IF code \notin DOMAIN rooms
         THEN /\ out' = << AckError("Room not found") >>
              /\ UNCHANGED << members, joined >>
         ELSE /\ members' = [members EXCEPT ![code] = @ \cup {c}]
              /\ joined' = [joined EXCEPT ![code] = @ \cup {c}]
              /\ out' = << AckCode(code),
                           Emit("room_update", code, {c}, getStats(rooms[code]),
                                rooms[code].id) >>

\* server.js:69  value >= 1 && value <= 5
ValidRating(value) == Geq(value, MinRating) /\ Leq(value, MaxRating)

\* submit_rating storing into a copy of the ratings taken when the room was
\* created, for the room.ratings.set of server.js:70
SubmitRatingStale(c, p) ==
  /\ Handled
  /\ conns[c] = "open"
  /\ UNCHANGED << conns, members, joined, nextId, ended >>
  /\ LET code == Sanitized[p.code]
         value == Numbered[p.value]
     IN  IF code \notin DOMAIN rooms
         THEN /\ out' = << AckError("Room not found") >>
              /\ UNCHANGED rooms
         ELSE IF ~ValidRating(value)
         THEN /\ out' = << AckError("Invalid rating") >>
              /\ UNCHANGED rooms
         ELSE LET room == [rooms[code] EXCEPT !.ratings = Put(EmptyMap, c, value)]
                  stats == getStats(room)
              IN  /\ rooms' = [rooms EXCEPT ![code] = room]
                  /\ out' = << Emit("room_update", code, members[code], stats, room.id),
                               AckOk >>

\* submit_rating storing under the creator's id for the socket.id of
\* server.js:70
SubmitRatingAsCreator(c, p) ==
  /\ Handled
  /\ conns[c] = "open"
  /\ UNCHANGED << conns, members, joined, nextId, ended >>
  /\ LET code == Sanitized[p.code]
         value == Numbered[p.value]
     IN  IF code \notin DOMAIN rooms
         THEN /\ out' = << AckError("Room not found") >>
              /\ UNCHANGED rooms
         ELSE IF ~ValidRating(value)
         THEN /\ out' = << AckError("Invalid rating") >>
              /\ UNCHANGED rooms
         ELSE LET room == [rooms[code] EXCEPT
                             !.ratings = Put(@, rooms[code].creatorId, value)]
                  stats == getStats(room)
              IN  /\ rooms' = [rooms EXCEPT ![code] = room]
                  /\ out' = << Emit("room_update", code, members[code], stats, room.id),
                               AckOk >>

\* server.js:64-74
SubmitRating(c, p) ==
  /\ Handled
  /\ conns[c] = "open"
  /\ UNCHANGED << conns, members, joined, nextId, ended >>
  /\ LET code == Sanitized[p.code]
         value == Numbered[p.value]
     IN  IF code \notin DOMAIN rooms
         THEN /\ out' = << AckError("Room not found") >>
              /\ UNCHANGED rooms
         ELSE IF ~ValidRating(value)
         THEN /\ out' = << AckError("Invalid rating") >>
              /\ UNCHANGED rooms
         ELSE LET room == [rooms[code] EXCEPT !.ratings = Put(@, c, value)]
                  stats == getStats(room)
              IN  /\ rooms' = [rooms EXCEPT ![code] = room]
                  /\ out' = << Emit("room_update", code, members[code], stats, room.id),
                               AckOk >>

\* clear_ratings without the creator check of server.js:80
ClearRatingsByAnyone(c, p) ==
  /\ Handled
  /\ conns[c] = "open"
  /\ UNCHANGED << conns, members, joined, nextId, ended >>
  /\ LET code == Sanitized[p.code]
     IN  IF code \notin DOMAIN rooms
         THEN /\ out' = << AckError("Room not found") >>
              /\ UNCHANGED rooms
         ELSE LET room == [rooms[code] EXCEPT !.ratings = EmptyMap]
                  stats == getStats(room)
              IN  /\ rooms' = [rooms EXCEPT ![code] = room]
                  /\ out' = << Emit("room_update", code, members[code], stats, room.id),
                               AckOk >>

\* clear_ratings with the statistics taken before the clear() of server.js:81
ClearRatingsStatsFirst(c, p) ==
  /\ Handled
  /\ conns[c] = "open"
  /\ UNCHANGED << conns, members, joined, nextId, ended >>
  /\ LET code == Sanitized[p.code]
     IN  IF code \notin DOMAIN rooms
         THEN /\ out' = << AckError("Room not found") >>
              /\ UNCHANGED rooms
         ELSE IF rooms[code].creatorId # c
         THEN /\ out' = << AckError("Only creator can clear") >>
              /\ UNCHANGED rooms
         ELSE LET room == [rooms[code] EXCEPT !.ratings = EmptyMap]
                  stats == getStats(rooms[code])
              IN  /\ rooms' = [rooms EXCEPT ![code] = room]
                  /\ out' = << Emit("room_update", code, members[code], stats, room.id),
                               AckOk >>

\* server.js:76-85
ClearRatings(c, p) ==
  /\ Handled
  /\ conns[c] = "open"
  /\ UNCHANGED << conns, members, joined, nextId, ended >>
  /\ LET code == Sanitized[p.code]
     IN  IF code \notin DOMAIN rooms
         THEN /\ out' = << AckError("Room not found") >>
              /\ UNCHANGED rooms
         ELSE IF rooms[code].creatorId # c
         THEN /\ out' = << AckError("Only creator can clear") >>
              /\ UNCHANGED rooms
         ELSE LET room == [rooms[code] EXCEPT !.ratings = EmptyMap]
                  stats == getStats(room)
              IN  /\ rooms' = [rooms EXCEPT ![code] = room]
                  /\ out' = << Emit("room_update", code, members[code], stats, room.id),
                               AckOk >>

\* end_room without the delete of server.js:93
EndRoomKeepsRoom(c, p) ==
  /\ Handled
  /\ conns[c] = "open"
  /\ UNCHANGED << conns, rooms, members, joined, nextId, ended >>
  /\ LET code == Sanitized[p.code]
     IN  IF code \notin DOMAIN rooms
         THEN out' = << AckError("Room not found") >>
         ELSE IF rooms[code].creatorId # c
         THEN out' = << AckError("Only creator can end") >>
         ELSE out' = << Ended(code, members[code], rooms[code].id), AckOk >>

\* end_room without the creator check of server.js:91
EndRoomByAnyone(c, p) ==
  /\ Handled
  /\ conns[c] = "open"
  /\ UNCHANGED << conns, members, nextId >>
  /\ LET code == Sanitized[p.code]
     IN  IF code \notin DOMAIN rooms
         THEN /\ out' = << AckError("Room not found") >>
              /\ UNCHANGED << rooms, ended, joined >>
         ELSE /\ out' = << Ended(code, members[code], rooms[code].id),
                           Delete(code, rooms[code].id), AckOk >>
              /\ rooms' = Remove(rooms, {code})
              /\ ended' = ended \cup {[code |-> code, id |-> rooms[code].id]}
              /\ joined' = [joined EXCEPT ![code] = {}]

\* server.js:87-95
EndRoom(c, p) ==
  /\ Handled
  /\ conns[c] = "open"
  /\ UNCHANGED << conns, members, nextId >>
  /\ LET code == Sanitized[p.code]
     IN  IF code \notin DOMAIN rooms
         THEN /\ out' = << AckError("Room not found") >>
              /\ UNCHANGED << rooms, ended, joined >>
         ELSE IF rooms[code].creatorId # c
         THEN /\ out' = << AckError("Only creator can end") >>
              /\ UNCHANGED << rooms, ended, joined >>
         ELSE /\ out' = << Ended(code, members[code], rooms[code].id),
                           Delete(code, rooms[code].id), AckOk >>
              /\ rooms' = Remove(rooms, {code})
              /\ ended' = ended \cup {[code |-> code, id |-> rooms[code].id]}
              /\ joined' = [joined EXCEPT ![code] = {}]

\* Object.entries(rooms): the live codes in insertion order (the codes of the
\* model hold a letter, so none is an integer-like key)
RECURSIVE Entries(_, _)
Entries(rms, S) ==
  IF S = {} THEN << >>
  ELSE LET code == CHOOSE x \in S : \A y \in S : rms[x].id <= rms[y].id
       IN  << code >> \o Entries(rms, S \ {code})

\* the loop body with "else if" for the second "if" of server.js:103
DisconnectRoomElseIf(c, code, room, st, subs) ==
  LET left == [room EXCEPT !.ratings = Remove(@, {c})]
  IN  IF c \in DOMAIN room.ratings
      THEN [rooms |-> [st.rooms EXCEPT ![code] = left],
            out |-> Append(st.out,
                      Emit("room_update", code, subs[code], getStats(left), room.id))]
      ELSE IF room.creatorId = c
      THEN [rooms |-> Remove(st.rooms, {code}),
            out |-> st.out \o << Ended(code, subs[code], room.id), Delete(code, room.id) >>]
      ELSE st

\* the loop body with room.ratings.clear() for the delete of server.js:100
DisconnectRoomClears(c, code, room, st, subs) ==
  LET voted == c \in DOMAIN room.ratings
      left == [room EXCEPT !.ratings = EmptyMap]
      st1 == IF voted
             THEN [rooms |-> [st.rooms EXCEPT ![code] = left],
                   out |-> Append(st.out,
                             Emit("room_update", code, subs[code], getStats(left), room.id))]
             ELSE st
  IN  IF room.creatorId = c
      THEN [rooms |-> Remove(st1.rooms, {code}),
            out |-> st1.out \o << Ended(code, subs[code], room.id), Delete(code, room.id) >>]
      ELSE st1

\* the loop body without the delete of server.js:105
DisconnectRoomKeepsRoom(c, code, room, st, subs) ==
  LET voted == c \in DOMAIN room.ratings
      left == [room EXCEPT !.ratings = Remove(@, {c})]
      st1 == IF voted
             THEN [rooms |-> [st.rooms EXCEPT ![code] = left],
                   out |-> Append(st.out,
                             Emit("room_update", code, subs[code], getStats(left), room.id))]
             ELSE st
  IN  IF room.creatorId = c
      THEN [rooms |-> st1.rooms,
            out |-> Append(st1.out, Ended(code, subs[code], room.id))]
      ELSE st1

\* server.js:99-106  the body of the loop for one entry of the snapshot;
\* st is [rooms, out] so far, subs the membership
DisconnectRoom(c, code, room, st, subs) ==
  LET voted == c \in DOMAIN room.ratings
      left == [room EXCEPT !.ratings = Remove(@, {c})]
      st1 == IF voted
             THEN [rooms |-> [st.rooms EXCEPT ![code] = left],
                   out |-> Append(st.out,
                             Emit("room_update", code, subs[code], getStats(left), room.id))]
             ELSE st
  IN  IF room.creatorId = c
      THEN [rooms |-> Remove(st1.rooms, {code}),
            out |-> st1.out \o << Ended(code, subs[code], room.id), Delete(code, room.id) >>]
      ELSE st1

RECURSIVE DisconnectLoop(_, _, _, _, _)
\* server.js:98  for (const [code, room] of Object.entries(rooms))
DisconnectLoop(c, entries, snapshot, st, subs) ==
  IF entries = << >> THEN st
  ELSE DisconnectLoop(c, Tail(entries), snapshot,
                      DisconnectRoom(c, Head(entries), snapshot[Head(entries)], st, subs),
                      subs)

\* server.js:97-108; socket.io has taken the socket out of every room it had
\* joined when the 'disconnect' event fires
Disconnect(c) ==
  /\ Handled
  /\ conns[c] = "open"
  /\ conns' = [conns EXCEPT ![c] = "closed"]
  /\ LET subs == [code \in DOMAIN members |-> members[code] \ {c}]
         done == DisconnectLoop(c, Entries(rooms, DOMAIN rooms), rooms,
                                [rooms |-> rooms, out |-> << >>], subs)
     IN  /\ members' = subs
         /\ joined' = [code \in DOMAIN joined |->
                         IF code \in DOMAIN done.rooms THEN joined[code] \ {c} ELSE {}]
         /\ rooms' = done.rooms
         /\ out' = done.out
         /\ ended' = ended \cup {[code |-> code, id |-> rooms[code].id] :
                                   code \in DOMAIN rooms \ DOMAIN done.rooms}
  /\ UNCHANGED nextId

Next ==
  \/ \E c \in Conns : Connect(c)
  \/ \E c \in Conns, attempts \in Attempts : CreateRoom(c, attempts)
  \/ \E c \in Conns, p \in CodePayloads : JoinRoom(c, p)
  \/ \E c \in Conns, p \in RatingPayloads : SubmitRating(c, p)
  \/ \E c \in Conns, p \in CodePayloads : ClearRatings(c, p)
  \/ \E c \in Conns, p \in CodePayloads : EndRoom(c, p)
  \/ \E c \in Conns : Disconnect(c)

Spec == Init /\ [][Next]_vars

TypeOK ==
  /\ conns \in [Conns -> {"idle", "open", "closed"}]
  /\ DOMAIN rooms \subseteq Codes
  /\ \A code \in DOMAIN rooms :
       /\ rooms[code].creatorId \in Conns
       /\ DOMAIN rooms[code].ratings \subseteq Conns
       /\ rooms[code].id \in 1..MaxCreates
  /\ members \in [Codes -> SUBSET Conns]
  /\ joined \in [Codes -> SUBSET Conns]
  /\ nextId \in 1..(MaxCreates + 1)
  /\ steps \in 0..MaxEvents
  /\ call = NoCall

(* -------------------- create_room, statement by statement -------------- *)

\* the registries create_room can find: rooms created by open sockets, each
\* socket subscribed to the rooms it created
Registries ==
  UNION {[S -> {[creatorId |-> c, ratings |-> EmptyMap, id |-> i] :
                  c \in Conns, i \in 1..Cardinality(S)}] : S \in SUBSET Codes}
Registry(rms) == \A x, y \in DOMAIN rms : rms[x].id = rms[y].id => x = y

CreateInit ==
  /\ conns = [c \in Conns |-> "open"]
  /\ rooms \in {rms \in Registries : Registry(rms)}
  /\ members = [code \in Codes |->
                  IF code \in DOMAIN rooms THEN {rooms[code].creatorId} ELSE {}]
  /\ joined = members
  /\ nextId = Cardinality(DOMAIN rooms) + 1
  /\ ended = {}
  /\ out = << >>
  /\ steps = 0
  /\ call \in {[pc |-> "loop", c |-> c, code |-> << >>] : c \in Conns}

\* server.js:24  one iteration of the for loop: Math.random() yields chars[k]
DrawChar(k) ==
  /\ call.pc = "loop"
  /\ Len(call.code) < CodeLen
  /\ \E d \in Draws : d[Len(call.code) + 1] = k
  /\ call' = [call EXCEPT !.code = Append(@, chars[k + 1])]
  /\ UNCHANGED << conns, rooms, members, joined, nextId, ended, out, steps >>

\* server.js:25  the code is live: generateRoomCode() is called again
Collide ==
  /\ call.pc = "loop"
  /\ Len(call.code) = CodeLen
  /\ call.code \in DOMAIN rooms
  /\ call' = [call EXCEPT !.code = << >>]
  /\ UNCHANGED << conns, rooms, members, joined, nextId, ended, out, steps >>

\* server.js:26  return code
Return ==
  /\ call.pc = "loop"
  /\ Len(call.code) = CodeLen
  /\ call.code \notin DOMAIN rooms
  /\ call' = [call EXCEPT !.pc = "returned"]
  /\ UNCHANGED << conns, rooms, members, joined, nextId, ended, out, steps >>

\* server.js:51-53  the room is stored, the caller subscribed, the ack sent
Complete ==
  /\ call.pc = "returned"
  /\ rooms' = Put(rooms, call.code,
                  [creatorId |-> call.c, ratings |-> EmptyMap, id |-> nextId])
  /\ members' = [members EXCEPT ![call.code] = @ \cup {call.c}]
  /\ joined' = [joined EXCEPT ![call.code] = {call.c}]
  /\ out' = << AckCode(call.code) >>
  /\ nextId' = nextId + 1
  /\ steps' = steps + 1
  /\ call' = [call EXCEPT !.pc = "done"]
  /\ UNCHANGED << conns, ended >>

CreateNext ==
  \/ \E k \in 0..(Len(chars) - 1) : DrawChar(k)
  \/ Collide
  \/ Return
  \/ Complete

\* the last iteration of the loop completes the draw d
Finishes(d) ==
  /\ call.code = SubSeq(CodeOf(d), 1, CodeLen - 1)
  /\ DrawChar(d[CodeLen])

\* the handler is not interrupted, and Math.random() does not avoid any of
\* the draws for ever
CreateSpec ==
  /\ CreateInit
  /\ [][CreateNext]_vars
  /\ WF_vars(CreateNext)
  /\ \A d \in Draws : SF_vars(Finishes(d))

(* ------------------------------ lookup -------------------------------- *)

LookupInit ==
  /\ conns = [c \in Conns |-> "open"]
  /\ rooms \in {rms \in Registries : Registry(rms)}
  /\ members = [code \in Codes |->
                  IF code \in DOMAIN rooms THEN {rooms[code].creatorId} ELSE {}]
  /\ joined = members
  /\ nextId = Cardinality(DOMAIN rooms) + 1
  /\ ended = {}
  /\ out = << >>
  /\ steps = 0
  /\ call = NoCall

\* the requests that only look a code up, with the codes of LookupCodes
LookupNext ==
  \/ \E c \in Conns, rc \in LookupCodes : JoinRoom(c, [code |-> rc, value |-> JsUndefined])
  \/ \E c \in Conns, rc \in LookupCodes : EndRoom(c, [code |-> rc, value |-> JsUndefined])

LookupSpec == LookupInit /\ [][LookupNext]_vars

(* ============================== claims ================================= *)

\* a whole number / an integer in [1,5]
IsInteger(v) == ~v.nan /\ v.twice % 2 = 0
IntegerRating(v) == IsInteger(v) /\ Geq(v, MinRating) /\ Leq(v, MaxRating)

\* the sockets whose 'disconnect' this step handles
Closing == {c \in Conns : conns[c] = "open" /\ conns'[c] = "closed"}

IsUpdate(e) == e.k = "emit" /\ e.ev = "room_update"
IsEnded(e) == e.k = "emit" /\ e.ev = "room_ended"

(* C1: in every reachable state every live room's ratings map has at most  *)
(* one entry per connection, every stored value is an integer in 1..5, and *)
(* the count of a room never exceeds the number of connections that have   *)
(* connected.                                                              *)
C1_RatingsIntegers ==
  \A code \in DOMAIN rooms :
    LET ratings == rooms[code].ratings
    IN  /\ DOMAIN ratings \subseteq Conns
        /\ \A x \in DOMAIN ratings : IntegerRating(ratings[x])
        /\ getStats(rooms[code]).count <= Cardinality({c \in Conns : conns[c] # "idle"})

(* C2: submit_rating on a live room with a value that is not an integer in *)
(* [1,5] is acknowledged {ok:false, error:"Invalid rating"}, leaves the    *)
(* ratings unchanged and broadcasts nothing.                               *)
C2_InvalidRatingRejected ==
  [][\A c \in Conns, p \in RatingPayloads :
       (/\ Sanitized[p.code] \in DOMAIN rooms
        /\ ~IntegerRating(Numbered[p.value])
        /\ SubmitRating(c, p))
       => /\ out' = << AckError("Invalid rating") >>
          /\ rooms' = rooms]_vars

RECURSIVE Total(_, _)
\* the sum of the values of the entries with keys in S, doubled
Total(ratings, S) ==
  IF S = {} THEN 0
  ELSE LET x == CHOOSE y \in S : TRUE
       IN  ratings[x].twice + Total(ratings, S \ {x})

\* st is the statistics of ratings: the count, the five buckets, and the mean
\* to the nearest hundredth (|avg/100 - total/(2*count)| <= 1/200)
StatsOf(ratings, st) ==
  LET n == Cardinality(DOMAIN ratings)
      t == Total(ratings, DOMAIN ratings)
      d == 2 * n * st.avg - 100 * t
  IN  /\ st.count = n
      /\ \A i \in 0..4 :
           st.distribution[i] = Cardinality({x \in DOMAIN ratings : ratings[x] = Num(2 * (i + 1))})
      /\ IF n = 0 THEN st.avg = 0 ELSE d <= n /\ -d <= n

\* the ratings of e's room when the handler of this step emitted e: those the
\* room has after the step, or, for a room the step deleted, those it had
\* less the entry of the closing socket
RatingsAt(e) ==
  IF e.code \in DOMAIN rooms' /\ rooms'[e.code].id = e.room
  THEN rooms'[e.code].ratings
  ELSE Remove(rooms[e.code].ratings, Closing)

C4_BucketShift ==
  [][\A c \in Conns, p \in RatingPayloads :
       (/\ Sanitized[p.code] \in DOMAIN rooms
        /\ IntegerRating(Numbered[p.value])
        /\ SubmitRating(c, p))
       => LET code == Sanitized[p.code]
              v == Numbered[p.value].twice \div 2
              old == getStats(rooms[code])
              new == getStats(rooms'[code])
              One(b) == IF b THEN 1 ELSE 0
          IN  IF c \notin DOMAIN rooms[code].ratings
              THEN /\ new.count = old.count + 1
                   /\ \A i \in 0..4 :
                        new.distribution[i] = old.distribution[i] + One(i = v - 1)
              ELSE LET w == rooms[code].ratings[c]
                   IN  /\ new.count = old.count
                       /\ w = Num(2 * v) => new.distribution = old.distribution
                       /\ w # Num(2 * v) =>
                            \E j \in 0..4 :
                              /\ w = Num(2 * (j + 1))
                              /\ \A i \in 0..4 :
                                   new.distribution[i] =
                                     old.distribution[i] + One(i = v - 1) - One(i = j)]_vars

(* C5: clear_ratings on a live room by a socket that is not its creator is *)
(* acknowledged {ok:false, error:"Only creator can clear"}, changes no     *)
(* state and emits nothing.                                                *)
C5_ClearByNonCreator ==
  [][\A code \in DOMAIN rooms : \A c \in Conns \ {rooms[code].creatorId} :
       conns[c] = "open" =>
         \A p \in CodePayloads :
           (Sanitized[p.code] = code /\ ClearRatings(c, p))
           => /\ out' = << AckError("Only creator can clear") >>
              /\ rooms' = rooms
              /\ members' = members
              /\ UNCHANGED << conns, nextId, ended >>]_vars

\* the refusal has just been sent, and a room still holds a rating
C5_Witness ==
  /\ out = << AckError("Only creator can clear") >>
  /\ \E code \in DOMAIN rooms : DOMAIN rooms[code].ratings # {}

\* a request code names a room that was deleted
WasEnded(rc) == \E e \in ended : e.code = Sanitized[rc]
NotFound == << AckError("Room not found") >>

(* C6: once a room has been destroyed, every later join_room,              *)
(* submit_rating, clear_ratings and end_room naming its code is            *)
(* acknowledged {ok:false, error:"Room not found"}, whatever has happened  *)
(* in between.                                                             *)
C6_DestroyedStaysNotFound ==
  [][/\ \A c \in Conns, p \in CodePayloads :
          (WasEnded(p.code) /\ (JoinRoom(c, p) \/ ClearRatings(c, p) \/ EndRoom(c, p)))
            => out' = NotFound
     /\ \A c \in Conns, p \in RatingPayloads :
          (WasEnded(p.code) /\ SubmitRating(c, p)) => out' = NotFound]_vars

(* C7: end_room by the room's creator emits room_ended{code} to every      *)
(* socket subscribed to the code at that moment, then deletes the room,    *)
(* then acknowledges {ok:true}; and no room_update of a room is emitted    *)
(* after that room's room_ended.                                           *)
C7_EndRoomOrder ==
  [][/\ \A code \in DOMAIN rooms :
          LET c == rooms[code].creatorId
              id == rooms[code].id
          IN  conns[c] = "open" =>
                \A p \in CodePayloads :
                  (Sanitized[p.code] = code /\ EndRoom(c, p))
                  => /\ out' = << Ended(code, members[code], id), Delete(code, id), AckOk >>
                     /\ code \notin DOMAIN rooms'
     /\ \A i \in 1..Len(out') :
          IsUpdate(out'[i]) =>
            /\ \A e \in ended : e.id # out'[i].room
            /\ \A j \in 1..(i - 1) : ~(IsEnded(out'[j]) /\ out'[j].room = out'[i].room)]_vars

\* the creator has just ended a room that another socket was subscribed to
C7_Witness ==
  /\ Len(out) = 3
  /\ IsEnded(out[1]) /\ Cardinality(out[1].to) >= 2
  /\ out[2] = Delete(out[1].code, out[1].room)
  /\ out[3] = AckOk
  /\ out[1].code \notin DOMAIN rooms

(* C8: when a socket disconnects, every live room it created is removed    *)
(* and room_ended{code} goes to every remaining subscriber of the code;    *)
(* when the creator had voted, the room_update for the removed rating      *)
(* comes first and the room is removed all the same.                       *)
C8_CreatorDisconnect ==
  [][\A c \in Closing : \A code \in DOMAIN rooms :
       rooms[code].creatorId = c =>
         LET id == rooms[code].id
         IN  /\ code \notin DOMAIN rooms'
             /\ \E i \in 1..(Len(out') - 1) :
                  /\ out'[i] = Ended(code, members[code] \ {c}, id)
                  /\ out'[i + 1] = Delete(code, id)
                  /\ c \in DOMAIN rooms[code].ratings =>
                       \E j \in 1..(i - 1) : IsUpdate(out'[j]) /\ out'[j].room = id]_vars

\* a creator that had voted has just disconnected, with a subscriber left
C8_Witness ==
  /\ Len(out) = 3
  /\ IsUpdate(out[1])
  /\ IsEnded(out[2]) /\ out[2].to # {} /\ out[2].room = out[1].room
  /\ out[3] = Delete(out[2].code, out[2].room)
  /\ out[2].code \notin DOMAIN rooms

(* C9: when a socket disconnects, each live room it did not create stays:  *)
(* where it had a rating, exactly that entry goes and exactly one          *)
(* room_update with the recomputed statistics is broadcast to the room;    *)
(* where it had none, the room is unchanged and nothing is emitted for it. *)
C9_VoterDisconnect ==
  [][\A c \in Closing : \A code \in DOMAIN rooms :
       rooms[code].creatorId # c =>
         LET room == rooms[code]
             mine == {i \in 1..Len(out') : out'[i].code = code}
         IN  /\ code \in DOMAIN rooms'
             /\ IF c \in DOMAIN room.ratings
                THEN /\ rooms'[code] = [room EXCEPT !.ratings = Remove(@, {c})]
                     /\ \E i \in 1..Len(out') :
                          /\ mine = {i}
                          /\ out'[i] = Emit("room_update", code, members[code] \ {c},
                                            getStats(rooms'[code]), room.id)
                ELSE /\ rooms'[code] = room
                     /\ mine = {}]_vars

\* a voter that is not the creator has just disconnected, and another
\* socket's rating is still in the room
C9_Witness ==
  /\ Len(out) = 1
  /\ IsUpdate(out[1])
  /\ out[1].stats.count >= 1
  /\ out[1].code \in DOMAIN rooms
  /\ \E c \in Conns : conns[c] = "closed"

(* C10: create_room inserts a room under a code that was not live before   *)
(* the call, with the caller as creatorId and no ratings, subscribes the   *)
(* caller to the code and leaves every room that was live unchanged.       *)
C10_CreateFresh ==
  [][\A c \in Conns, attempts \in Attempts :
       (nextId' # nextId /\ conns[c] = "open" /\ CreateRoom(c, attempts)) =>
         \E code \in DOMAIN rooms' \ DOMAIN rooms :
           /\ DOMAIN rooms' = DOMAIN rooms \cup {code}
           /\ rooms'[code].creatorId = c
           /\ DOMAIN rooms'[code].ratings = {}
           /\ members'[code] = members[code] \cup {c}
           /\ out' = << AckCode(code) >>
           /\ \A k \in DOMAIN rooms : rooms'[k] = rooms[k]]_vars

\* a room has just been created beside a live room that holds a rating
C10_Witness ==
  /\ Len(out) = 1 /\ out[1].k = "ack" /\ out[1].ok
  /\ out[1].code \in DOMAIN rooms
  /\ rooms[out[1].code].id = nextId - 1
  /\ \E k \in DOMAIN rooms : k # out[1].code /\ DOMAIN rooms[k].ratings # {}

(* C11: every create_room call completes: generateRoomCode returns, the     *)
(* room is stored and {ok:true, code} is acknowledged, whatever rooms are   *)
(* live when it is called.                                                  *)
C11_CreateCompletes ==
  <>(call.pc = "done" /\ out = << AckCode(call.code) >> /\ call.code \in DOMAIN rooms)

(* C12: a submit_rating that is acknowledged {ok:true} has stored the       *)
(* caller's value, then emitted exactly one room_update, carrying the       *)
(* statistics of the ratings after the store, to every socket subscribed    *)
(* to the code, the submitter among them, and only then acknowledged.       *)
C12_SubmitBroadcast ==
  [][\A code \in DOMAIN rooms : \A c \in Conns :
       conns[c] = "open" =>
         \A p \in RatingPayloads :
           (/\ Sanitized[p.code] = code
            /\ SubmitRating(c, p)
            /\ out'[Len(out')] = AckOk)
           => /\ rooms'[code].ratings = Put(rooms[code].ratings, c, Numbered[p.value])
              /\ out' = << Emit("room_update", code, members[code],
                                getStats(rooms'[code]), rooms[code].id),
                           AckOk >>
              /\ c \in out'[1].to]_vars

\* the step acknowledges {ok:true, code}
AcksCode == \E i \in 1..Len(out') : out'[i].k = "ack" /\ out'[i].ok /\ out'[i] # AckOk

(* C13: a join_room naming a live room, which is acknowledged with          *)
(* {ok:true, code}, subscribes the caller to the code, leaves the registry  *)
(* and everything else alone, acknowledges first and then sends one         *)
(* room_update with the room's current statistics to the caller only; one   *)
(* naming no live room acknowledges {ok:false, error:"Room not found"} and  *)
(* subscribes the caller to nothing.                                        *)
C13_JoinFrame ==
  [][\A p \in CodePayloads :
       LET code == Sanitized[p.code]
       IN  IF code \in DOMAIN rooms
           THEN AcksCode =>
                  \A c \in Conns :
                    (conns[c] = "open" /\ JoinRoom(c, p))
                    => /\ rooms' = rooms
                       /\ UNCHANGED << conns, nextId, ended >>
                       /\ members' = [members EXCEPT ![code] = @ \cup {c}]
                       /\ Len(out') = 2
                       /\ out'[1] = AckCode(code)
                       /\ IsUpdate(out'[2])
                       /\ out'[2].code = code
                       /\ out'[2].to = {c}
                       /\ StatsOf(rooms[code].ratings, out'[2].stats)
           ELSE \A c \in Conns :
                  (conns[c] = "open" /\ JoinRoom(c, p))
                  => /\ rooms' = rooms
                     /\ UNCHANGED << conns, nextId, ended >>
                     /\ members' = members
                     /\ out' = NotFound]_vars

\* a socket has just joined a room that another socket created and that
\* holds a rating
C13_Witness ==
  /\ Len(out) = 2
  /\ out[1].k = "ack" /\ out[1].ok
  /\ IsUpdate(out[2]) /\ out[2].stats.count >= 1
  /\ \E c \in Conns :
       /\ out[2].to = {c}
       /\ {c} # members[out[2].code]
       /\ c \in members[out[2].code]
       /\ rooms[out[2].code].creatorId # c

\* the statistics of a room without ratings
NoStats == [count |-> 0, avg |-> 0, distribution |-> [i \in 0..4 |-> 0]]

(* C14: clear_ratings by the room's creator empties that room's ratings,    *)
(* keeps the room live with its creatorId and its subscribers, leaves every *)
(* other room as it was and broadcasts one room_update with count 0, avg 0  *)
(* and distribution [0,0,0,0,0] to the room before it acknowledges.         *)
C14_CreatorClear ==
  [][\A code \in DOMAIN rooms :
       LET c == rooms[code].creatorId
       IN  conns[c] = "open" =>
             \A p \in CodePayloads :
               (Sanitized[p.code] = code /\ ClearRatings(c, p))
               => /\ DOMAIN rooms' = DOMAIN rooms
                  /\ rooms'[code].ratings = EmptyMap
                  /\ rooms'[code].creatorId = c
                  /\ rooms'[code].id = rooms[code].id
                  /\ \A k \in DOMAIN rooms \ {code} : rooms'[k] = rooms[k]
                  /\ members' = members
                  /\ UNCHANGED << conns, nextId, ended >>
                  /\ out' = << Emit("room_update", code, members[code], NoStats,
                                    rooms[code].id),
                               AckOk >>]_vars

\* the creator has just cleared a room with two subscribers
C14_Witness ==
  /\ Len(out) = 2
  /\ IsUpdate(out[1]) /\ out[1].stats = NoStats /\ Cardinality(out[1].to) >= 2
  /\ out[2] = AckOk
  /\ out[1].code \in DOMAIN rooms
  /\ rooms[out[1].code].ratings = EmptyMap
  /\ rooms[out[1].code].creatorId \in out[1].to

\* a request code in upper case, cut to the length of a room code
Canonical(rc) ==
  LET str == ToStr(rc)
  IN  [i \in 1..Min(Len(str), CodeLen) |-> toUpperCase[str[i]]]

(* C15: a request finds a room exactly when its code, put in upper case and *)
(* cut to the six characters of a room code, is the code of a live room;    *)
(* every other request is answered "Room not found".                        *)
C15_LookupNormalizes ==
  [][\A c \in Conns, rc \in LookupCodes :
       LET p == [code |-> rc, value |-> JsUndefined]
       IN  (JoinRoom(c, p) \/ EndRoom(c, p))
             => (out' # NotFound <=> Canonical(rc) \in DOMAIN rooms)]_vars

(* C16: a room keeps its creatorId as long as it is live; a step that       *)
(* removes it is its creator's disconnect or its creator's end_room; and    *)
(* end_room by any other socket is acknowledged                             *)
(* {ok:false, error:"Only creator can end"}, emits nothing and leaves the   *)
(* registry as it was.                                                      *)
C16_CreatorOnly ==
  [][\A code \in DOMAIN rooms :
       LET room == rooms[code]
           kept == code \in DOMAIN rooms' /\ rooms'[code].id = room.id
       IN  /\ kept => rooms'[code].creatorId = room.creatorId
           /\ ~kept =>
                \/ room.creatorId \in Closing
                \/ /\ conns' = conns
                   /\ \E p \in CodePayloads :
                        Sanitized[p.code] = code /\ EndRoom(room.creatorId, p)
           /\ \A c \in Conns \ {room.creatorId} :
                conns[c] = "open" =>
                  \A p \in CodePayloads :
                    (Sanitized[p.code] = code /\ EndRoom(c, p))
                    => /\ out' = << AckError("Only creator can end") >>
                       /\ rooms' = rooms
                       /\ members' = members]_vars

\* end_room has just been refused to a subscriber of a room that holds a
\* rating
C16_Witness ==
  /\ out = << AckError("Only creator can end") >>
  /\ \E code \in DOMAIN rooms :
       /\ members[code] # {rooms[code].creatorId}
       /\ DOMAIN rooms[code].ratings # {}

\* the requests of the model that submit a valid rating to a code
ValidRatingsFor ==
  [code \in Codes |->
     {p \in RatingPayloads :
        Sanitized[p.code] = code /\ ValidRating(Numbered[p.value])}]

(* C17: a valid submit_rating, which ends acknowledged {ok:true} after one  *)
(* emission for its room, stores the caller's value and keeps the entry of  *)
(* every other socket, so that of two submissions by different sockets,     *)
(* whichever is handled second, both entries are in the ratings with the    *)
(* values submitted, the ratings are those the other order gives, and the   *)
(* room_update of the second carries the statistics of both.                *)
C17_NoLostUpdate ==
  [][(Len(out') = 2 /\ out'[2] = AckOk /\ conns' = conns) =>
       \A code \in DOMAIN rooms :
         out'[1].code = code =>
           \A c \in Conns :
             conns[c] = "open" =>
               \A p \in ValidRatingsFor[code] :
                 SubmitRating(c, p)
                 => LET old == rooms[code].ratings
                        new == rooms'[code].ratings
                        v == Numbered[p.value]
                    IN  /\ c \in DOMAIN new /\ new[c] = v
                        /\ \A d \in DOMAIN old \ {c} :
                             /\ d \in DOMAIN new /\ new[d] = old[d]
                             /\ new = Put(Put(Remove(old, {c, d}), c, v), d, old[d])
                        /\ IsUpdate(out'[1])
                        /\ out'[1].stats.count = Cardinality(DOMAIN old \cup {c})
                        /\ StatsOf(new, out'[1].stats)]_vars

\* the second of two sockets has just rated a room: both values are stored
\* and counted
C17_Witness ==
  /\ Len(out) = 2
  /\ IsUpdate(out[1]) /\ out[1].stats.count = 2
  /\ out[2] = AckOk
  /\ out[1].code \in DOMAIN rooms
  /\ \E c, d \in DOMAIN rooms[out[1].code].ratings :
       rooms[out[1].code].ratings[c] # rooms[out[1].code].ratings[d]

\* socket x has in the room of code after the step the entry it had before,
\* or none as before
SameEntry(code, x) ==
  LET old == rooms[code].ratings
      new == rooms'[code].ratings
  IN  /\ x \in DOMAIN old <=> x \in DOMAIN new
      /\ x \in DOMAIN old => new[x] = old[x]

(* C18: the entry of a socket in a room that stays live is created or       *)
(* changed only by that socket's submit_rating and removed only by that     *)
(* socket's disconnect or the creator's clear_ratings of that room: a step  *)
(* that changes the ratings of a room that stays is no join_room, end_room  *)
(* or create_room, a disconnect or a submit_rating in it leaves the entries *)
(* of the other sockets as they were, and a clear_ratings in it is the      *)
(* creator's, of that room, and empties it.                                 *)
C18_EntryOwnership ==
  [][\A code \in DOMAIN rooms \cap DOMAIN rooms' :
       (/\ rooms'[code].id = rooms[code].id
        /\ rooms'[code].ratings # rooms[code].ratings)
       => \A c \in Conns :
            conns[c] = "open" =>
              /\ c \in Closing => \A x \in Conns \ {c} : SameEntry(code, x)
              /\ (\A x \in Conns \ {c} : SameEntry(code, x))
                   \/ \A p \in RatingPayloads : ~SubmitRating(c, p)
              /\ \A p \in CodePayloads :
                   /\ ~JoinRoom(c, p)
                   /\ ~EndRoom(c, p)
                   /\ ClearRatings(c, p) =>
                        /\ rooms[code].creatorId = c
                        /\ Sanitized[p.code] = code
                        /\ rooms'[code].ratings = EmptyMap
              /\ \A attempts \in Attempts : ~CreateRoom(c, attempts)]_vars

\* a room holds the entries of its creator and of another socket, and the
\* other socket's clear_ratings has just been refused
C18_Witness ==
  /\ out = << AckError("Only creator can clear") >>
  /\ \E code \in DOMAIN rooms :
       /\ Cardinality(DOMAIN rooms[code].ratings) = 2
       /\ rooms[code].creatorId \in DOMAIN rooms[code].ratings

(* C19: in every reachable state the creatorId of every live room and every *)
(* key of its ratings is the id of a socket that is connected: once a       *)
(* socket's disconnect has been handled no live room is owned by it or      *)
(* holds a rating of it.                                                    *)
C19_LiveIdsConnected ==
  \A code \in DOMAIN rooms :
    /\ conns[rooms[code].creatorId] = "open"
    /\ \A x \in DOMAIN rooms[code].ratings : conns[x] = "open"

\* a socket that owned a room has just disconnected, and a room of another
\* socket lives on with a rating
C19_Witness ==
  /\ \E c \in Conns : conns[c] = "closed"
  /\ \E i \in 1..Len(out) : out[i].k = "delete"
  /\ \E code \in DOMAIN rooms : DOMAIN rooms[code].ratings # {}

(* C20: a room_update or room_ended for a code reaches only sockets that    *)
(* created or joined the room that is live under the code when it is sent:  *)
(* the subscribers of an earlier room under the same code get nothing       *)
(* unless they have joined again.                                           *)
C20_OnlySubscribersOfLiveRoom ==
  [][\A i \in 1..Len(out') :
       out'[i].k = "emit" =>
         out'[i].to \subseteq joined[out'[i].code] \cup joined'[out'[i].code]]_vars
====
